---- MODULE Spec2Model ----
(***************************************************************************)
(* django-i18n-model: the I18nBase metaclass (schema derivation of a       *)
(* translation model), I18nModel.translate (upsert of a translation row),  *)
(* I18nManager.get_available_languages and the admin inline mixin.         *)
(*                                                                         *)
(* Python strings on which the code does string operations (endswith,      *)
(* slicing, split, "in") are sequences of one-character strings.  Field    *)
(* names, on which it only tests membership and type, are TLA+ strings     *)
(* wrapped in a record that keeps the Python type: [kind |-> "str"] or     *)
(* [kind |-> "tuple"].                                                     *)
(***************************************************************************)
EXTENDS Integers, Sequences, FiniteSets, TLC

VARIABLES
    decl,       \* the class statement handed to I18nBase.__new__ (name, attrs)
    klass,      \* what I18nBase.__new__ returned or raised; NotYet before it ran
    rows,       \* the translation table: sequence of rows, index = primary key
    pc,         \* per caller: position inside I18nModel.translate
    call,       \* per caller: arguments of its current / last translate call
    translation,\* per caller: the instance fetched by objects.get (local variable)
    outcome,    \* per caller: how its last translate call ended
    written,    \* history: per (source, language, attribute) the last value a call stored
    raced,      \* history: callers whose call overlapped another's create for its pair
    ncalls      \* number of translate calls started so far

vars == <<decl, klass, rows, pc, call, translation, outcome, written, raced, ncalls>>

----------------------------------------------------------------------------
(* Python values *)

None == [kind |-> "none"]
Str(s) == [kind |-> "str", v |-> s]
Tuple(t) == [kind |-> "tuple", v |-> t]
Class(n) == [kind |-> "class", name |-> n]
Raise(e) == [kind |-> "raise", exc |-> e]

RECURSIVE IndexOf(_, _, _)
\* str.find from position i: index of the first c in s at or after i, 0 if none
IndexOf(s, c, i) ==
    IF i > Len(s) THEN 0
    ELSE IF s[i] = c THEN i
    ELSE IndexOf(s, c, i + 1)

\* c in s
Contains(s, c) == IndexOf(s, c, 1) # 0

RECURSIVE split(_, _)
\* s.split(sep)
split(s, sep) ==
    LET i == IndexOf(s, sep, 1) IN
    IF i = 0 THEN <<s>>
    ELSE <<SubSeq(s, 1, i - 1)>> \o split(SubSeq(s, i + 1, Len(s)), sep)

\* s.endswith(suffix)
endswith(s, suffix) ==
    /\ Len(s) >= Len(suffix)
    /\ SubSeq(s, Len(s) - Len(suffix) + 1, Len(s)) = suffix

I18N == <<"I", "1", "8", "N">>

ToSet(s) == {s[i] : i \in 1..Len(s)}

----------------------------------------------------------------------------
(* The host application: the module that defines the translation models,   *)
(* its source models and the model registry.                               *)

Foo == <<"F", "o", "o">>
Bar == <<"B", "a", "r">>
Baz == <<"B", "a", "z">>
Qux == <<"Q", "u", "x">>
App == <<"a", "p", "p">>
Dot == "."

\* classes defined in the module of the translation model
ModuleClasses == {Foo, Bar, Baz}

\* models registered under the application label
RegisteredModels == {Foo, Bar, Baz}

Field(n, t, u) == [name |-> n, type |-> t, unique |-> u]

\* source._meta.fields, in declaration order
MetaFields(model) ==
    IF model = Foo THEN
        << Field("id", "AutoField", FALSE),
           Field("title", "CharField", TRUE),
           Field("body", "TextField", FALSE),
           Field("views", "IntegerField", FALSE) >>
    ELSE IF model = Bar THEN
        << Field("id", "AutoField", FALSE),
           Field("title", "CharField", FALSE),
           Field("body", "TextField", FALSE) >>
    ELSE
        << Field("id", "AutoField", FALSE),
           Field("title", "CharField", TRUE),
           Field("slug", "SlugField", TRUE),
           Field("body", "TextField", FALSE),
           Field("email", "EmailField", TRUE) >>

\* django.db.models.loading.get_model: the registered model, or None
get_model(app_label, model_name) ==
    IF app_label = App /\ model_name \in RegisteredModels
    THEN Class(model_name)
    ELSE None

\* getattr(module, classname): the class, or AttributeError
get_class(classname) ==
    IF classname \in ModuleClasses THEN Class(classname) ELSE Raise("AttributeError")

----------------------------------------------------------------------------
(* I18nBase.__new__: derivation of the translation model's schema *)

\* a class statement: its name and, from attrs, the Meta options that
\* I18nBase.__new__ reads (hasMeta: whether attrs holds a Meta class at all)
Declaration(name, hasMeta, source_model, translation_fields, unique_together) ==
    [name |-> name, hasMeta |-> hasMeta, source_model |-> source_model,
     translation_fields |-> translation_fields, unique_together |-> unique_together]

Absent == [kind |-> "absent"]

\* the class ModelBase.__new__ builds, or the exception that left __new__
Model(source, fields, unique_together) ==
    [status |-> "ok", source |-> source, fields |-> fields,
     unique_together |-> unique_together]
Failed(exc) ==
    [status |-> exc, source |-> <<>>, fields |-> <<>>, unique_together |-> <<>>]
NotYet == Failed("NotYet")

\* lines 97-111: a string source_model is looked up
ResolveString(source) ==
    IF source.kind = "str" /\ source.v # <<>> THEN
        IF Contains(source.v, Dot)
        THEN get_model(split(source.v, Dot)[1], split(source.v, Dot)[2])
        ELSE get_class(source.v)
    ELSE source

\* lines 113-122: the SourceNameI18N naming pattern
ResolveByName(source, name) ==
    IF source = None /\ endswith(name, I18N)
    THEN get_class(SubSeq(name, 1, Len(name) - 4))
    ELSE source

\* lines 83-126: the source model, or the exception raised while finding it
ResolveSource(d) ==
    IF ~d.hasMeta THEN Raise("KeyError")            \* line 93: attrs['Meta']
    ELSE
        LET s1 == ResolveString(d.source_model) IN
        IF s1.kind = "raise" THEN s1
        ELSE
            LET s2 == ResolveByName(s1, d.name) IN
            IF s2.kind = "raise" THEN s2
            ELSE IF s2.kind # "class" THEN Raise("ImproperlyConfigured")
            ELSE s2

TextTypes == {"TextField", "CharField", "SlugField"}

\* lines 132-146: the names of the fields to translate
TranslationFields(d, source) ==
    IF d.translation_fields = <<>>
    THEN LET text == SelectSeq(MetaFields(source), LAMBDA f : f.type \in TextTypes)
         IN  [i \in 1..Len(text) |-> text[i].name]
    ELSE d.translation_fields

\* lines 152-154: the source fields copied into attrs, in the order of the loop
CopiedFields(source, fields) ==
    SelectSeq(MetaFields(source), LAMBDA f : f.name \in ToSet(fields))

\* lines 156-159: the copied fields that were unique on the source
UniqueFields(copied) ==
    LET u == SelectSeq(copied, LAMBDA f : f.unique)
    IN  [i \in 1..Len(u) |-> u[i].name]

SourceLanguage == Tuple(<<"i18n_source", "i18n_language">>)

\* a derivation that keeps the declared entries and adds no pair
AddSourceLanguage_NoPair(ut) ==
    IF ut.kind # "absent" THEN
        IF ut.v = <<>> THEN Raise("IndexError")
        ELSE IF ut.v[1].kind = "str"
        THEN Tuple(<<Tuple([i \in 1..Len(ut.v) |-> ut.v[i].v])>>)
        ELSE Tuple(ut.v)
    ELSE Tuple(<<>>)

\* lines 162-171: Meta.unique_together after the source/language pair is added;
\* ut is Meta.unique_together as declared: Absent, or Tuple of Str / Tuple items
AddSourceLanguage(ut) ==
    IF ut.kind # "absent" THEN
        IF ut.v = <<>> THEN Raise("IndexError")         \* unique_together[0]
        ELSE IF ut.v[1].kind = "str"
        THEN Tuple(<<Tuple([i \in 1..Len(ut.v) |-> ut.v[i].v]), SourceLanguage>>)
        ELSE Tuple(ut.v \o <<Str("i18n_source"), Str("i18n_language")>>)
    ELSE Tuple(<<SourceLanguage>>)

\* lines 174-176: one (i18n_language, field) pair per demoted unique field
AddUniqueFields(ut, unique_fields) ==
    Tuple(ut.v \o [i \in 1..Len(unique_fields) |->
                        Tuple(<<"i18n_language", unique_fields[i]>>)])

\* lines 78-184
I18nBaseNew(d) ==
    LET source == ResolveSource(d) IN
    IF source.kind = "raise" THEN Failed(source.exc)
    ELSE
        LET fields == TranslationFields(d, source.name)
            copied == CopiedFields(source.name, fields)
            unique_fields == UniqueFields(copied)
            ut == AddSourceLanguage(d.unique_together)
        IN  IF ut.kind = "raise" THEN Failed(ut.exc)
            ELSE Model(source.name,
                       [i \in 1..Len(copied) |-> copied[i].name],
                       AddUniqueFields(ut, unique_fields).v)

----------------------------------------------------------------------------
(* Class statements the schema derivation is run on *)

FooI18N == Foo \o I18N
BazI18N == Baz \o I18N
QuxI18N == Qux \o I18N                       \* the module defines no class Qux
FooTranslation == Foo \o <<"T", "r">>        \* does not follow the naming pattern

DeclNames == {FooI18N, BazI18N, QuxI18N, FooTranslation}

\* Meta.source_model: not given, a class, a bare class name, 'app.Model'
DeclSources ==
    { None, Class(Bar), Str(Bar), Str(Qux),
      Str(App \o <<Dot>> \o Baz), Str(App \o <<Dot>> \o Qux) }

\* Meta.translation_fields: not given, or names of which "nope" is on no source
DeclFields == { <<>>, <<"title">>, <<"body", "title">>, <<"title", "nope">> }

\* Meta.unique_together: not given, one tuple of names, a tuple of tuples
DeclUnique ==
    { Absent,
      Tuple(<<Str("title"), Str("body")>>),
      Tuple(<<Tuple(<<"title", "body">>)>>),
      Tuple(<<Tuple(<<"title", "body">>), Tuple(<<"i18n_language", "body">>)>>) }

Declarations ==
    { Declaration(n, TRUE, s, f, u) :
        n \in DeclNames, s \in DeclSources, f \in DeclFields, u \in DeclUnique }
    \cup { Declaration(n, FALSE, None, <<>>, Absent) : n \in DeclNames }

----------------------------------------------------------------------------
(* Settings, source objects and the translation table *)

\* settings.LANGUAGES and settings.LANGUAGE_CODE of the host project
LANGUAGES == << <<"en", "English">>, <<"de", "German">>, <<"pt-br", "Portuguese">> >>
LANGUAGE_CODE == "en"

\* I18nModel.i18n_language: choices=[l for l in LANGUAGES if l[0] != LANGUAGE_CODE]
i18n_language_choices == SelectSeq(LANGUAGES, LAMBDA l : l[1] # LANGUAGE_CODE)

ChoiceCodes == {i18n_language_choices[i][1] : i \in 1..Len(i18n_language_choices)}

MaxCalls == 3

\* saved source objects
Sources == {"s1", "s2"}

\* concurrent requests, each running translate
Callers == {"a", "b"}

\* language codes passed to translate: the configured ones and one that is not
CallLanguages == {"en", "de", "pt-br", "zz"}
SeqLanguages == {"de", "pt-br"}

Blank == ""                 \* default of a CharField / TextField
Values == {"X", "Y"}

\* the translated attributes of the model class
Attrs(k) == ToSet(k.fields)

\* **kwargs of a translate call: attribute name -> value
KwargsOver(k) == UNION {[K -> Values] : K \in SUBSET Attrs(k)}

Row(source, language, attrs) ==
    [i18n_source |-> source, i18n_language |-> language, attrs |-> attrs]

NoRow == Row("none", "none", <<>>)

\* getattr(row, f)
FieldValue(row, f) ==
    IF f = "i18n_source" THEN row.i18n_source
    ELSE IF f = "i18n_language" THEN row.i18n_language
    ELSE row.attrs[f]

\* the translation model of the concurrent requests: class FooI18N(I18nModel)
\* with Meta.translation_fields = ('title',); Foo.title is unique
TitleOnly == Declaration(FooI18N, TRUE, None, <<"title">>, Absent)

\* the translation model of the sequential requests: class FooI18N(I18nModel)
\* with an empty Meta: title (unique on Foo) and body are translated
TitleAndBody == Declaration(FooI18N, TRUE, None, <<>>, Absent)

\* Meta.unique_together as the persistence layer enforces it: every entry is a
\* tuple of names of fields of the model
Installable(k) ==
    /\ k.status = "ok"
    /\ \A i \in 1..Len(k.unique_together) :
          /\ k.unique_together[i].kind = "tuple"
          /\ ToSet(k.unique_together[i].v) \subseteq
                Attrs(k) \cup {"i18n_source", "i18n_language"}

\* the unique_together entries that writing `row` at primary key pk would break
Violated(k, table, pk, row) ==
    { c \in {k.unique_together[i].v : i \in 1..Len(k.unique_together)} :
        \E o \in 1..Len(table) :
            /\ o # pk
            /\ \A n \in 1..Len(c) : FieldValue(table[o], c[n]) = FieldValue(row, c[n]) }

\* cls.objects.filter(i18n_source=source, i18n_language=language): primary keys
Matching(table, source, language) ==
    { i \in 1..Len(table) :
        table[i].i18n_source = source /\ table[i].i18n_language = language }

----------------------------------------------------------------------------
(* I18nModel.translate *)

Call(source, language, kwargs) ==
    [source |-> source, language |-> language, kwargs |-> kwargs]
NoCall == Call("none", "none", <<>>)

Fetched(pk, row) == [pk |-> pk, row |-> row]
NotFetched == Fetched(0, NoRow)

\* how a call ended: what it returned or raised, whether it went through
\* objects.create, and the unique_together entries an IntegrityError reported
Outcome(result, created, violated) ==
    [result |-> result, created |-> created, violated |-> violated]
NoOutcome == Outcome("none", FALSE, {})

Unset == "<unset>"

\* a loop that stops after its first item
SetAttrs_OneKey(row, kwargs) ==
    IF DOMAIN kwargs = {} THEN row
    ELSE LET key == CHOOSE a \in DOMAIN kwargs : TRUE
         IN  [row EXCEPT !.attrs = [@ EXCEPT ![key] = kwargs[key]]]

\* lines 264-265: for key, value in kwargs.items(): setattr(translation, key, value)
SetAttrs(row, kwargs) ==
    [row EXCEPT !.attrs =
        [a \in DOMAIN row.attrs |-> IF a \in DOMAIN kwargs THEN kwargs[a] ELSE row.attrs[a]]]

\* line 269-271: the instance cls.objects.create builds: fields not given are blank
NewRow(k, source, language, kwargs) ==
    SetAttrs(Row(source, language, [a \in Attrs(k) |-> Blank]), kwargs)

\* history: the values the call c stored
Record(w, c) ==
    [x \in DOMAIN w |->
        IF x[1] = c.source /\ x[2] = c.language /\ x[3] \in DOMAIN c.kwargs
        THEN c.kwargs[x[3]] ELSE w[x]]

\* lines 256-265: the lookup.  Without kwargs (257-259) its result is returned or
\* DoesNotExist leaves translate; with kwargs the row found is changed in memory
\* (then line 266) or DoesNotExist is caught (then line 269).
Translate(p, source, language, kwargs) ==
    LET found == Matching(rows, source, language)
        pk == CHOOSE i \in found : TRUE
        rivals == {q \in Callers \ {p} : /\ pc[q] = "create"
                                          /\ call[q].source = source
                                          /\ call[q].language = language}
        result == IF found = {} THEN "DoesNotExist"
                  ELSE IF Cardinality(found) > 1 THEN "MultipleObjectsReturned"
                  ELSE "ok"
    IN
    /\ pc[p] = "idle"
    /\ ncalls < MaxCalls
    /\ ncalls' = ncalls + 1
    /\ call' = [call EXCEPT ![p] = Call(source, language, kwargs)]
    /\ IF DOMAIN kwargs = {} \/ result = "MultipleObjectsReturned"
       THEN /\ pc' = pc
            /\ translation' = translation
            /\ outcome' = [outcome EXCEPT ![p] = Outcome(result, FALSE, {})]
            /\ raced' = raced \ {p}
       ELSE /\ pc' = [pc EXCEPT ![p] = IF result = "ok" THEN "save" ELSE "create"]
            /\ translation' = [translation EXCEPT ![p] =
                    IF result = "ok" THEN Fetched(pk, SetAttrs(rows[pk], kwargs))
                    ELSE NotFetched]
            /\ outcome' = [outcome EXCEPT ![p] = NoOutcome]
            /\ raced' = IF result = "DoesNotExist" /\ rivals # {}
                        THEN raced \cup {p} \cup rivals
                        ELSE raced \ {p}
    /\ UNCHANGED <<decl, klass, rows, written>>

\* line 266-267: translation.save(), an UPDATE of the row with that primary key
Save(p) ==
    LET t == translation[p]
        broken == Violated(klass, rows, t.pk, t.row)
    IN
    /\ pc[p] = "save"
    /\ pc' = [pc EXCEPT ![p] = "idle"]
    /\ translation' = [translation EXCEPT ![p] = NotFetched]
    /\ IF broken = {}
       THEN /\ rows' = [rows EXCEPT ![t.pk] = t.row]
            /\ written' = Record(written, call[p])
            /\ outcome' = [outcome EXCEPT ![p] = Outcome("ok", FALSE, {})]
       ELSE /\ outcome' = [outcome EXCEPT ![p] = Outcome("IntegrityError", FALSE, broken)]
            /\ UNCHANGED <<rows, written>>
    /\ UNCHANGED <<decl, klass, call, raced, ncalls>>

\* a create whose IntegrityError is caught inside translate
Create_Swallowed(p) ==
    LET c == call[p]
        row == NewRow(klass, c.source, c.language, c.kwargs)
        broken == Violated(klass, rows, 0, row)
    IN
    /\ pc[p] = "create"
    /\ pc' = [pc EXCEPT ![p] = "idle"]
    /\ outcome' = [outcome EXCEPT ![p] = Outcome("ok", TRUE, {})]
    /\ IF broken = {}
       THEN /\ rows' = Append(rows, row)
            /\ written' = Record(written, c)
       ELSE UNCHANGED <<rows, written>>
    /\ UNCHANGED <<decl, klass, call, translation, raced, ncalls>>

\* lines 268-271: cls.objects.create(...), an INSERT; IntegrityError is not caught
Create(p) ==
    LET c == call[p]
        row == NewRow(klass, c.source, c.language, c.kwargs)
        broken == Violated(klass, rows, 0, row)
    IN
    /\ pc[p] = "create"
    /\ pc' = [pc EXCEPT ![p] = "idle"]
    /\ IF broken = {}
       THEN /\ rows' = Append(rows, row)
            /\ written' = Record(written, c)
            /\ outcome' = [outcome EXCEPT ![p] = Outcome("ok", TRUE, {})]
       ELSE /\ outcome' = [outcome EXCEPT ![p] = Outcome("IntegrityError", TRUE, broken)]
            /\ UNCHANGED <<rows, written>>
    /\ UNCHANGED <<decl, klass, call, translation, raced, ncalls>>

----------------------------------------------------------------------------
(* I18nManager and the admin inline, read through source.translations *)

\* source.translations.all(): the rows of one source, in primary key order
Translations(table, source) == SelectSeq(table, LAMBDA t : t.i18n_source = source)

\* a manager that forgets the relation it is bound to
get_available_languages_Unscoped(table, source) ==
    [i \in 1..Len(table) |-> table[i].i18n_language]

\* I18nManager.get_available_languages on source.translations
get_available_languages(table, source) ==
    LET all == Translations(table, source)
    IN  [i \in 1..Len(all) |-> all[i].i18n_language]

\* the obj argument of the admin inline: None, an unsaved object, a saved one
Obj(pk) == [kind |-> "object", pk |-> pk]
NoPk == "None"
AdminObjects == {None, Obj(NoPk)} \cup {Obj(src) : src \in Sources}

\* not obj or not obj.pk
Unsaved(obj) == obj = None \/ obj.pk = NoPk

\* I18nInlineMixin.get_existing_translation
get_existing_translation(table, obj) ==
    IF Unsaved(obj) THEN <<>> ELSE get_available_languages(table, obj.pk)

\* I18nInlineMixin.get_untranslated_languages
get_untranslated_languages(table, obj) ==
    IF Unsaved(obj) THEN
        LET langs == SelectSeq(LANGUAGES, LAMBDA lang : lang[1] # LANGUAGE_CODE)
        IN  [i \in 1..Len(langs) |-> langs[i][1]]
    ELSE
        LET translated == get_available_languages(table, obj.pk)
            langs == SelectSeq(LANGUAGES,
                        LAMBDA lang : /\ lang[1] \notin ToSet(translated)
                                      /\ lang[1] # LANGUAGE_CODE)
        IN  [i \in 1..Len(langs) |-> langs[i][1]]

\* I18nInlineMixin.get_extra
get_extra(table, obj) ==
    Len(LANGUAGES) - 1 - Len(get_existing_translation(table, obj))

\* i18n_formset_factory: kwargs['initial'] of the form set
formset_initial(languages) ==
    [i \in 1..Len(languages) |-> [i18n_language |-> languages[i]]]

----------------------------------------------------------------------------
(* Specifications *)

NothingWritten(k) == [x \in Sources \X CallLanguages \X Attrs(k) |-> Unset]

NoRequests ==
    /\ rows = <<>>
    /\ pc = [p \in Callers |-> "idle"]
    /\ call = [p \in Callers |-> NoCall]
    /\ translation = [p \in Callers |-> NotFetched]
    /\ outcome = [p \in Callers |-> NoOutcome]
    /\ raced = {}
    /\ ncalls = 0

\* the class statement is about to run
SchemaInit ==
    /\ decl \in Declarations
    /\ klass = NotYet
    /\ written = NothingWritten(klass)
    /\ NoRequests

\* the class statement runs: I18nBase.__new__(mcs, name, bases, attrs)
New ==
    /\ klass = NotYet
    /\ klass' = I18nBaseNew(decl)
    /\ UNCHANGED <<decl, rows, pc, call, translation, outcome, written, raced, ncalls>>

SchemaNext == New

SchemaSpec == SchemaInit /\ [][SchemaNext]_vars

\* the translation model d is defined and its table is empty
Defined(d) ==
    /\ decl = d
    /\ klass = I18nBaseNew(decl)
    /\ Installable(klass)
    /\ written = NothingWritten(klass)
    /\ NoRequests

Next ==
    \E p \in Callers :
        \/ \E s \in Sources, l \in CallLanguages, kw \in KwargsOver(klass) :
                Translate(p, s, l, kw)
        \/ Save(p)
        \/ Create(p)

Init == Defined(TitleOnly)

\* requests overlap in any way
Spec == Init /\ [][Next]_vars

SeqInit == Defined(TitleAndBody)

\* a single request context: one call after the other
SeqNext ==
    \/ \E s \in Sources, l \in SeqLanguages, kw \in KwargsOver(klass) :
            Translate("a", s, l, kw)
    \/ Save("a")
    \/ Create("a")

SeqSpec == SeqInit /\ [][SeqNext]_vars

----------------------------------------------------------------------------
(* Properties of translate and of the reads *)

Pairs == Sources \X CallLanguages

\* the primary key of the single row of a pair that has one
PkOf(s, l) == CHOOSE i \in Matching(rows, s, l) : TRUE

\* C1: in every state reached by translate calls, overlapping or not, there is at
\* most one translation row for each (source, language) pair.
C1_AtMostOneRowPerPair ==
    \A x \in Pairs : Cardinality(Matching(rows, x[1], x[2])) <= 1

\* C1 witness: several rows exist and a call on a pair that already had its row
\* has finished by updating it.
C1_Witness ==
    /\ Len(rows) >= 2
    /\ \E p \in Callers :
        /\ pc[p] = "idle"
        /\ DOMAIN call[p].kwargs # {}
        /\ outcome[p] = Outcome("ok", FALSE, {})
        /\ Matching(rows, call[p].source, call[p].language) # {}

\* two finished calls for the same pair that overlapped, both found no row and
\* both went on to objects.create
RacedCreates(p, q) ==
    /\ p # q
    /\ {p, q} \subseteq raced
    /\ pc[p] = "idle" /\ pc[q] = "idle"
    /\ outcome[p].created /\ outcome[q].created
    /\ call[p].source = call[q].source
    /\ call[p].language = call[q].language

\* C2 as stated: of two calls for the same pair that both found no row exactly
\* one create succeeds, the other raises the uniqueness violation, and the pair
\* never has two rows (looked at where every row is in a configured language
\* other than the default).
C2_ExactlyOneCreateSucceeds ==
    \A p, q \in Callers :
        (RacedCreates(p, q) /\ call[p].language \in ChoiceCodes
            /\ \A i \in 1..Len(rows) : rows[i].i18n_language \in ChoiceCodes) =>
            /\ {outcome[p].result, outcome[q].result} = {"ok", "IntegrityError"}
            /\ Cardinality(Matching(rows, call[p].source, call[p].language)) <= 1

\* C2 amended: of two calls for the same pair that both found no row at most one
\* create succeeds; a create that does not succeed leaves translate as an
\* IntegrityError (no retry, nothing swallowed); the pair never has two rows;
\* and both fail only when each is rejected by a (i18n_language, field) entry,
\* not by the (i18n_source, i18n_language) one.
C2_AtMostOneCreateSucceeds ==
    \A p, q \in Callers :
        RacedCreates(p, q) =>
            /\ {outcome[p].result, outcome[q].result} \subseteq {"ok", "IntegrityError"}
            /\ ~(outcome[p].result = "ok" /\ outcome[q].result = "ok")
            /\ Cardinality(Matching(rows, call[p].source, call[p].language)) <= 1
            /\ outcome[p].result = "IntegrityError" /\ outcome[q].result = "IntegrityError"
                => /\ SourceLanguage.v \notin outcome[p].violated \cup outcome[q].violated
                   /\ outcome[p].violated # {} /\ outcome[q].violated # {}
            /\ SourceLanguage.v \in outcome[p].violated => outcome[q].result = "ok"

\* C2 witness: two calls raced for one pair; one created the row, the other was
\* rejected by the (i18n_source, i18n_language) entry.
C2_Witness ==
    \E p, q \in Callers :
        /\ RacedCreates(p, q)
        /\ outcome[p].result = "ok"
        /\ outcome[q].result = "IntegrityError"
        /\ SourceLanguage.v \in outcome[q].violated
        /\ Cardinality(Matching(rows, call[p].source, call[p].language)) = 1

\* C3 as stated: after each call with updates of a sequential series, exactly
\* one row exists for its pair and holds the values the call gave.
C3_LastCallWins ==
    pc["a"] = "idle" /\ DOMAIN call["a"].kwargs # {} =>
        LET c == call["a"] IN
        /\ Cardinality(Matching(rows, c.source, c.language)) = 1
        /\ \A k \in DOMAIN c.kwargs :
              rows[PkOf(c.source, c.language)].attrs[k] = c.kwargs[k]

\* C3 amended: in a sequential series of calls, a pair has at most one row, and
\* exactly one once a call with updates for it was not rejected; each attribute
\* holds the value of the most recent call that named it and was not rejected,
\* and is blank if there was none: a call rejected with an IntegrityError
\* creates and changes nothing.
C3_LastStoredWins ==
    \A x \in Sources \X SeqLanguages :
        LET m == Matching(rows, x[1], x[2])
            named == {a \in Attrs(klass) : written[<<x[1], x[2], a>>] # Unset}
        IN  /\ Cardinality(m) <= 1
            /\ named # {} <=> m # {}
            /\ m # {} =>
                \A a \in Attrs(klass) :
                    rows[PkOf(x[1], x[2])].attrs[a] =
                        IF a \in named THEN written[<<x[1], x[2], a>>] ELSE Blank

\* C3 witness: a later call changed only the title of an existing row, whose body
\* still is what an earlier call stored.
C3_Witness ==
    /\ pc["a"] = "idle"
    /\ outcome["a"] = Outcome("ok", FALSE, {})
    /\ DOMAIN call["a"].kwargs = {"title"}
    /\ call["a"].kwargs["title"] = "Y"
    /\ LET r == rows[PkOf(call["a"].source, call["a"].language)]
       IN  r.attrs["title"] = "Y" /\ r.attrs["body"] = "X"

\* C4: every translation row's language is one of the choices of i18n_language,
\* the configured languages other than the default.
C4_LanguageIsAChoice ==
    \A i \in 1..Len(rows) : rows[i].i18n_language \in ChoiceCodes

\* the languages that have a row of the source
LanguagesOf(source) ==
    {l \in CallLanguages : Matching(rows, source, l) # {}}

\* C9: get_available_languages on source.translations lists exactly the
\* languages that have a row of that source, each once.
C9_AvailableLanguages ==
    \A s \in Sources :
        LET langs == get_available_languages(rows, s) IN
        /\ ToSet(langs) = LanguagesOf(s)
        /\ Len(langs) = Cardinality(LanguagesOf(s))

\* C9 witness: a source whose pt-br row was created before its de row, while the
\* other source has a row in a language this one lacks.
C9_Witness ==
    \E s, o \in Sources :
        /\ s # o
        /\ get_available_languages(rows, s) = <<"pt-br", "de">>
        /\ LanguagesOf(o) \ LanguagesOf(s) # {}

\* C10: for every object the inline is shown for, get_extra equals the number of
\* initial languages handed to the form set and is not negative.
C10_ExtraMatchesUntranslated ==
    \A obj \in AdminObjects :
        /\ get_extra(rows, obj) =
                Len(formset_initial(get_untranslated_languages(rows, obj)))
        /\ get_extra(rows, obj) >= 0

----------------------------------------------------------------------------
(* Properties of the schema derivation *)

FieldNames(model) == {MetaFields(model)[i].name : i \in 1..Len(MetaFields(model))}

\* Meta.unique_together as declared, a single tuple of names made a list of one
DeclaredTogether(ut) ==
    IF ut.kind = "absent" THEN <<>>
    ELSE IF ut.v[1].kind = "str" THEN <<Tuple([i \in 1..Len(ut.v) |-> ut.v[i].v])>>
    ELSE ut.v

\* the copied fields that are unique on the source, as (i18n_language, field)
DemotedTogether(k) ==
    LET u == SelectSeq(k.fields,
                LAMBDA n : \E i \in 1..Len(MetaFields(k.source)) :
                    MetaFields(k.source)[i].name = n /\ MetaFields(k.source)[i].unique)
    IN  [i \in 1..Len(u) |-> Tuple(<<"i18n_language", u[i]>>)]

\* C5: the derived unique_together is the declared entries, then
\* (i18n_source, i18n_language), then (i18n_language, f) for every demoted
\* field f, and every entry is a tuple of names.
C5_UniqueTogether ==
    klass.status = "ok" =>
        /\ klass.unique_together =
              DeclaredTogether(decl.unique_together) \o <<SourceLanguage>>
                \o DemotedTogether(klass)
        /\ \A i \in 1..Len(klass.unique_together) :
              klass.unique_together[i].kind = "tuple"

\* C6: with explicit translation_fields whose source is found, the model copies
\* exactly those fields in the order given, or the class statement fails with
\* ImproperlyConfigured when a name is no field of the source.
C6_ExplicitFields ==
    (klass # NotYet /\ decl.translation_fields # <<>>
        /\ ResolveSource(decl).kind = "class") =>
        IF ToSet(decl.translation_fields) \subseteq FieldNames(ResolveSource(decl).name)
        THEN klass.status = "ok" /\ klass.fields = decl.translation_fields
        ELSE klass.status = "ImproperlyConfigured"

\* C7: without source_model, a class named <Source>I18N whose module defines
\* <Source> gets <Source> as its source and the class statement completes, with
\* or without a Meta class.
C7_NamingPattern ==
    (klass # NotYet /\ decl.source_model = None /\ endswith(decl.name, I18N)
        /\ SubSeq(decl.name, 1, Len(decl.name) - 4) \in ModuleClasses) =>
        /\ klass.status = "ok"
        /\ klass.source = SubSeq(decl.name, 1, Len(decl.name) - 4)

\* C8: a source_model 'app.Model' that the registry does not know makes the
\* class statement fail with ImproperlyConfigured, whatever the class is named.
C8_UnknownDottedSource ==
    (klass # NotYet /\ decl.hasMeta /\ decl.source_model.kind = "str"
        /\ Contains(decl.source_model.v, Dot)
        /\ get_model(split(decl.source_model.v, Dot)[1],
                     split(decl.source_model.v, Dot)[2]) = None) =>
        klass.status = "ImproperlyConfigured"

====
